---- MODULE Spec2Model ----
(***************************************************************************)
(* Model of the wire codec of stacks-transactions-js: src/types.ts         *)
(* (addresses, principals, length-prefixed strings, memos, asset           *)
(* identifiers, length-prefixed lists), src/payload.ts (transaction        *)
(* payloads) and src/clarity/types/principalCV.ts (Clarity principals).    *)
(*                                                                         *)
(* Representation.  A JavaScript string is a sequence of code points, a    *)
(* Buffer is a sequence of bytes 0..255 and a hex string is a sequence of  *)
(* hex digits 0..15.  A missing property / undefined number is the         *)
(* integer -1 and a function that returns without a value yields the       *)
(* buffer UndefinedBuffer.  A call that throws yields [ok |-> FALSE].      *)
(***************************************************************************)
EXTENDS Integers, Sequences, FiniteSets, TLC

(***************************************************************************)
(* Bounds of the model.                                                    *)
(***************************************************************************)
\* longest string (in characters) handed to a constructor
MaxStrLen == 130
\* longest string of the short-string inputs (names of an AssetInfo, list elements)
MaxShortLen == 2
\* longest list handed to lengthPrefixedList
MaxListLen == 2
\* longest buffer handed to coinbasePayload
MaxBufLen == 34

(***************************************************************************)
(* Program constants.                                                      *)
(***************************************************************************)
\* constants.ts (imported by types.ts:1-7 and payload.ts:1)
MAX_STRING_LENGTH_BYTES == 128
MEMO_MAX_LENGTH_BYTES == 34
COINBASE_BUFFER_LENGTH_BYTES == 32

\* enum StacksMessageType, types.ts:23-28
StacksMessageType_Address == 0
StacksMessageType_LengthPrefixedString == 1
StacksMessageType_MemoString == 2
StacksMessageType_AssetInfo == 3

\* enum PrincipalType of constants.ts; types.ts:33-45 switches over it and
\* over StacksMessageType in one switch, so its tags differ from 0..3
PrincipalType_Standard == 5
PrincipalType_Contract == 6

\* enum PayloadType of constants.ts
PayloadType_TokenTransfer == 0
PayloadType_SmartContract == 1
PayloadType_ContractCall == 2
PayloadType_PoisonMicroblock == 3
PayloadType_Coinbase == 4

\* enum ClarityType of clarity/clarityValue.ts, the two principal tags
ClarityType_PrincipalStandard == 5
ClarityType_PrincipalContract == 6

\* a property that is absent, or an argument that was not passed
undefined == -1
\* what a function returns when it falls off its end
UndefinedBuffer == <<undefined>>
\* the result of a call that throws
Threw == [ok |-> FALSE]

(***************************************************************************)
(* Strings and buffers.                                                    *)
(***************************************************************************)
\* U+FFFD, what Buffer.toString() yields for a malformed sequence
REPLACEMENT_CHARACTER == 65533

RECURSIVE Flatten(_)
\* BufferArray.concatBuffer(): the chunks, concatenated in append order
Flatten(chunks) ==
  IF chunks = <<>> THEN <<>>
  ELSE IF Len(chunks) = 1 THEN chunks[1]
  ELSE LET h == Len(chunks) \div 2 IN
       Flatten(SubSeq(chunks, 1, h)) \o Flatten(SubSeq(chunks, h + 1, Len(chunks)))

\* the UTF-8 encoding of one code point (code points below U+0800)
Utf8EncodeChar(c) ==
  IF c < 128 THEN <<c>> ELSE <<192 + (c \div 64), 128 + (c % 64)>>

\* Buffer.from(string): the UTF-8 bytes of a string
Utf8Encode(s) == Flatten([i \in 1..Len(s) |-> Utf8EncodeChar(s[i])])

\* byte i of b is the lead byte of a well-formed two-byte sequence
Utf8Lead(b, i) ==
  /\ b[i] >= 194 /\ b[i] < 224
  /\ i < Len(b) /\ b[i + 1] >= 128 /\ b[i + 1] < 192

\* Buffer.toString(): the string of UTF-8 bytes; a byte that starts no
\* well-formed one- or two-byte sequence decodes to U+FFFD
Utf8Decode(b) ==
  LET starts == SelectSeq([i \in 1..Len(b) |-> i],
                          LAMBDA i : ~(i > 1 /\ Utf8Lead(b, i - 1)))
  IN [k \in 1..Len(starts) |->
        LET i == starts[k] IN
        IF b[i] < 128 THEN b[i]
        ELSE IF Utf8Lead(b, i) THEN (b[i] - 192) * 64 + (b[i + 1] - 128)
        ELSE REPLACEMENT_CHARACTER]

\* Buffer.byteLength(string)
ByteLength(s) == Len(Utf8Encode(s))

\* Buffer.toString('hex'): two hex digits per byte, high digit first
BufferToHex(b) ==
  [i \in 1..(2 * Len(b)) |->
     IF i % 2 = 1 THEN b[(i + 1) \div 2] \div 16 ELSE b[i \div 2] % 16]

\* Buffer.from(hex, 'hex'): one byte per pair of digits, a trailing odd digit dropped
HexToBuffer(h) ==
  [i \in 1..(Len(h) \div 2) |-> h[2 * i - 1] * 16 + h[2 * i]]

RECURSIVE ToHexDigits(_)
\* Number.toString(16): the hex digits of a non-negative integer, no leading zero
ToHexDigits(n) ==
  IF n < 16 THEN <<n>> ELSE Append(ToHexDigits(n \div 16), n % 16)

\* String.padStart(width, '0')
PadStart(h, width) ==
  IF Len(h) >= width THEN h ELSE [i \in 1..(width - Len(h)) |-> 0] \o h

\* String.padEnd(width, '0')
PadEnd(h, width) ==
  IF Len(h) >= width THEN h ELSE h \o [i \in 1..(width - Len(h)) |-> 0]

\* utils.intToHexString(integer, lengthBytes)
intToHexString(integer, lengthBytes) ==
  PadStart(ToHexDigits(integer), lengthBytes * 2)

RECURSIVE hexStringToInt(_)
\* utils.hexStringToInt(hex): parseInt(hex, 16)
hexStringToInt(h) ==
  IF h = <<>> THEN 0 ELSE hexStringToInt(SubSeq(h, 1, Len(h) - 1)) * 16 + h[Len(h)]

\* utils.rightPadHexToLength(hex, length)
rightPadHexToLength(h, length) == PadEnd(h, length)

\* utils.exceedsMaxLengthBytes(string, maxLengthBytes)
exceedsMaxLengthBytes(string, maxLengthBytes) ==
  ByteLength(string) > maxLengthBytes

(***************************************************************************)
(* BufferReader: a forward-only cursor over a buffer.  A read is           *)
(* [ok, val, pos]: the value read and the cursor after it.                 *)
(***************************************************************************)
\* BufferReader.readBuffer(n) at cursor pos
readBuffer(buf, pos, n) ==
  IF pos + n > Len(buf) THEN Threw
  ELSE [ok |-> TRUE, val |-> SubSeq(buf, pos + 1, pos + n), pos |-> pos + n]

\* BufferReader.readUInt8() at cursor pos
readUInt8(buf, pos) ==
  IF pos + 1 > Len(buf) THEN Threw
  ELSE [ok |-> TRUE, val |-> buf[pos + 1], pos |-> pos + 1]

\* BufferReader.readUInt8Enum(enum, invalidEnumErrorFormatter) at cursor pos
readUInt8Enum(buf, pos, enum) ==
  IF pos + 1 > Len(buf) \/ buf[pos + 1] \notin enum THEN Threw
  ELSE [ok |-> TRUE, val |-> buf[pos + 1], pos |-> pos + 1]

(***************************************************************************)
(* types.ts: Address.                                                      *)
(***************************************************************************)
\* the c32check address strings the model constructs addresses from
C32Addresses == {"SP_A", "ST_B", "SM_C", "SN_D"}

\* the 20-byte hash of an address string, as 40 hex digits (bytes below 0x80)
HashHex(k) ==
  [i \in 1..40 |-> IF i % 2 = 1 THEN (i + k) % 8 ELSE (i * k + 3) % 16]

\* c32check.c32addressDecode(string): <<version, hash as hex>>
c32addressDecode(c32AddressString) ==
  CASE c32AddressString = "SP_A" -> <<22, HashHex(1)>>
    [] c32AddressString = "ST_B" -> <<26, HashHex(2)>>
    [] c32AddressString = "SM_C" -> <<20, HashHex(3)>>
    [] c32AddressString = "SN_D" -> <<21, HashHex(5)>>

\* address(c32AddressString)
address(c32AddressString) ==
  LET addressData == c32addressDecode(c32AddressString) IN
  [type |-> StacksMessageType_Address,
   version |-> addressData[1],
   data |-> addressData[2]]

\* serializeAddress(address)
serializeAddress(addr) ==
  Flatten(<<HexToBuffer(intToHexString(addr.version, 1)), HexToBuffer(addr.data)>>)

\* deserializeAddress(bufferReader)
deserializeAddress(buf, pos) ==
  LET v == readBuffer(buf, pos, 1) IN
  IF ~v.ok THEN Threw ELSE
  LET d == readBuffer(buf, v.pos, 20) IN
  IF ~d.ok THEN Threw ELSE
  [ok |-> TRUE,
   val |-> [type |-> StacksMessageType_Address,
            version |-> hexStringToInt(BufferToHex(v.val)),
            data |-> BufferToHex(d.val)],
   pos |-> d.pos]

(***************************************************************************)
(* types.ts: LengthPrefixedString.                                         *)
(***************************************************************************)
\* a || b on numbers: b when a is undefined or 0
OrElse(a, b) == IF a = undefined \/ a = 0 THEN b ELSE a

\* lengthPrefixedString(content, lengthPrefixBytes?, maxLengthBytes?)
lengthPrefixedString(content, lengthPrefixBytes, maxLengthBytes) ==
  LET prefixLength == OrElse(lengthPrefixBytes, 1)
      maxLength == OrElse(maxLengthBytes, MAX_STRING_LENGTH_BYTES) IN
  IF exceedsMaxLengthBytes(content, maxLength) THEN Threw
  ELSE [ok |-> TRUE,
        val |-> [type |-> StacksMessageType_LengthPrefixedString,
                 content |-> content,
                 lengthPrefixBytes |-> prefixLength,
                 maxLengthBytes |-> maxLength]]

\* serializeLPString(lps)
serializeLPString(lps) ==
  LET contentBuffer == Utf8Encode(lps.content)
      length == Len(contentBuffer) IN
  Flatten(<<HexToBuffer(intToHexString(length, lps.lengthPrefixBytes)), contentBuffer>>)

\* deserializeLPString(bufferReader)
deserializeLPString(buf, pos) ==
  LET length == readUInt8(buf, pos) IN
  IF ~length.ok THEN Threw ELSE
  LET content == readBuffer(buf, length.pos, length.val) IN
  IF ~content.ok THEN Threw ELSE
  LET lps == lengthPrefixedString(Utf8Decode(content.val), length.val, undefined) IN
  IF ~lps.ok THEN Threw ELSE
  [ok |-> TRUE, val |-> lps.val, pos |-> content.pos]

\* codeBodyString(content)
codeBodyString(content) == lengthPrefixedString(content, 4, 100000)

(***************************************************************************)
(* types.ts: MemoString.                                                   *)
(***************************************************************************)
\* memoString with the ceiling itself rejected
memoString_ceilingRejected(content) ==
  IF content # <<>> /\ ByteLength(content) >= MEMO_MAX_LENGTH_BYTES THEN Threw
  ELSE [ok |-> TRUE, val |-> [type |-> StacksMessageType_MemoString, content |-> content]]

\* memoString(content)
memoString(content) ==
  IF content # <<>> /\ exceedsMaxLengthBytes(content, MEMO_MAX_LENGTH_BYTES) THEN Threw
  ELSE [ok |-> TRUE, val |-> [type |-> StacksMessageType_MemoString, content |-> content]]

\* serializeMemoString(memoString)
serializeMemoString(memo) ==
  LET contentBuffer == Utf8Encode(memo.content)
      paddedContent == rightPadHexToLength(BufferToHex(contentBuffer),
                                           MEMO_MAX_LENGTH_BYTES * 2) IN
  Flatten(<<HexToBuffer(paddedContent)>>)

\* deserializeMemoString(bufferReader)
deserializeMemoString(buf, pos) ==
  LET content == readBuffer(buf, pos, MEMO_MAX_LENGTH_BYTES) IN
  IF ~content.ok THEN Threw ELSE
  [ok |-> TRUE,
   val |-> [type |-> StacksMessageType_MemoString, content |-> Utf8Decode(content.val)],
   pos |-> content.pos]

(***************************************************************************)
(* types.ts: Principal.                                                    *)
(***************************************************************************)
\* standardPrincipal(addressString)
standardPrincipal(addressString) ==
  [ok |-> TRUE,
   val |-> [type |-> PrincipalType_Standard, address |-> address(addressString)]]

\* contractPrincipal(addressString, contractName)
contractPrincipal(addressString, contractName) ==
  LET addr == address(addressString)
      name == lengthPrefixedString(contractName, undefined, undefined) IN
  IF ~name.ok THEN Threw ELSE
  [ok |-> TRUE,
   val |-> [type |-> PrincipalType_Contract, address |-> addr, contractName |-> name.val]]

\* serializePrincipal(principal)
serializePrincipal(principal) ==
  Flatten(<<<<principal.type>>, serializeAddress(principal.address)>>
          \o (IF principal.type = PrincipalType_Contract
              THEN <<serializeLPString(principal.contractName)>> ELSE <<>>))

\* deserializePrincipal(bufferReader)
deserializePrincipal(buf, pos) ==
  LET type == readUInt8Enum(buf, pos, {PrincipalType_Standard, PrincipalType_Contract}) IN
  IF ~type.ok THEN Threw ELSE
  LET addr == deserializeAddress(buf, type.pos) IN
  IF ~addr.ok THEN Threw ELSE
  IF type.val = PrincipalType_Standard
  THEN [ok |-> TRUE, val |-> [type |-> type.val, address |-> addr.val], pos |-> addr.pos]
  ELSE
  LET contractName == deserializeLPString(buf, addr.pos) IN
  IF ~contractName.ok THEN Threw ELSE
  [ok |-> TRUE,
   val |-> [type |-> type.val, address |-> addr.val, contractName |-> contractName.val],
   pos |-> contractName.pos]

(***************************************************************************)
(* types.ts: AssetInfo.                                                    *)
(***************************************************************************)
\* assetInfo(addressString, contractName, assetName): the object has no type property
assetInfo(addressString, contractName, assetName) ==
  LET cn == lengthPrefixedString(contractName, undefined, undefined)
      an == lengthPrefixedString(assetName, undefined, undefined) IN
  IF ~cn.ok \/ ~an.ok THEN Threw ELSE
  [ok |-> TRUE,
   val |-> [address |-> address(addressString),
            contractName |-> cn.val,
            assetName |-> an.val]]

\* serializeAssetInfo(info)
serializeAssetInfo(info) ==
  Flatten(<<serializeAddress(info.address),
            serializeLPString(info.contractName),
            serializeLPString(info.assetName)>>)

\* deserializeAssetInfo(bufferReader)
deserializeAssetInfo(buf, pos) ==
  LET addr == deserializeAddress(buf, pos) IN
  IF ~addr.ok THEN Threw ELSE
  LET cn == deserializeLPString(buf, addr.pos) IN
  IF ~cn.ok THEN Threw ELSE
  LET an == deserializeLPString(buf, cn.pos) IN
  IF ~an.ok THEN Threw ELSE
  [ok |-> TRUE,
   val |-> [type |-> StacksMessageType_AssetInfo,
            address |-> addr.val,
            contractName |-> cn.val,
            assetName |-> an.val],
   pos |-> an.pos]

(***************************************************************************)
(* types.ts: the dispatcher.                                               *)
(***************************************************************************)
\* message.type, undefined when the object has no such property
TypeOf(message) == IF "type" \in DOMAIN message THEN message.type ELSE undefined

\* serializeStacksMessage(message): no case matches an unknown type, and the
\* function then returns undefined
serializeStacksMessage(message) ==
  LET type == TypeOf(message) IN
  CASE type = StacksMessageType_Address -> serializeAddress(message)
    [] type \in {PrincipalType_Standard, PrincipalType_Contract} -> serializePrincipal(message)
    [] type = StacksMessageType_LengthPrefixedString -> serializeLPString(message)
    [] type = StacksMessageType_MemoString -> serializeMemoString(message)
    [] type = StacksMessageType_AssetInfo -> serializeAssetInfo(message)
    [] OTHER -> UndefinedBuffer

(***************************************************************************)
(* types.ts: LengthPrefixedList.                                           *)
(***************************************************************************)
\* lengthPrefixedList(values, lengthPrefixBytes?)
lengthPrefixedList(values, lengthPrefixBytes) ==
  [lengthPrefixBytes |-> OrElse(lengthPrefixBytes, 4), values |-> values]

\* serializeLengthPrefixedList(lengthPrefixedList)
serializeLengthPrefixedList(lpl) ==
  LET list == lpl.values IN
  Flatten(<<HexToBuffer(intToHexString(Len(list), lpl.lengthPrefixBytes))>>
          \o [index \in 1..Len(list) |-> serializeStacksMessage(list[index])])

\* the position of a type's case label in the switch of
\* deserializeLengthPrefixedList (6: no label matches)
CaseOf(type) ==
  CASE type = StacksMessageType_Address -> 1
    [] type = StacksMessageType_LengthPrefixedString -> 2
    [] type = StacksMessageType_MemoString -> 3
    [] type = StacksMessageType_AssetInfo -> 4
    [] type \in {PrincipalType_Standard, PrincipalType_Contract} -> 5
    [] OTHER -> 6

\* the statement under the k-th case label
CaseBody(k, buf, pos) ==
  CASE k = 1 -> deserializeAddress(buf, pos)
    [] k = 2 -> deserializeLPString(buf, pos)
    [] k = 3 -> deserializeMemoString(buf, pos)
    [] k = 4 -> deserializeAssetInfo(buf, pos)
    [] k = 5 -> deserializePrincipal(buf, pos)

\* the case label control reaches after the k-th case body: no case of the
\* switch ends in a break, so control falls through to the next label
NextCase(k) == k + 1

RECURSIVE SwitchFrom(_, _, _, _)
\* one execution of the switch, entered at label k, pushing onto l
SwitchFrom(k, buf, pos, l) ==
  IF k > 5 THEN [ok |-> TRUE, val |-> l, pos |-> pos]
  ELSE LET r == CaseBody(k, buf, pos) IN
       IF ~r.ok THEN Threw
       ELSE SwitchFrom(NextCase(k), buf, r.pos, Append(l, r.val))

RECURSIVE ListLoop(_, _, _, _, _, _)
\* the for loop of deserializeLengthPrefixedList from index on
ListLoop(index, length, type, buf, pos, l) ==
  IF index >= length THEN [ok |-> TRUE, val |-> l, pos |-> pos]
  ELSE LET r == SwitchFrom(CaseOf(type), buf, pos, l) IN
       IF ~r.ok THEN Threw
       ELSE ListLoop(index + 1, length, type, buf, r.pos, r.val)

\* deserializeLengthPrefixedList(bufferReader, lengthPrefixBytes, type)
deserializeLengthPrefixedList(buf, pos, lengthPrefixBytes, type) ==
  LET lengthBuf == readBuffer(buf, pos, lengthPrefixBytes) IN
  IF ~lengthBuf.ok THEN Threw ELSE
  LET length == hexStringToInt(BufferToHex(lengthBuf.val))
      r == ListLoop(0, length, type, buf, lengthBuf.pos, <<>>) IN
  IF ~r.ok THEN Threw ELSE
  [ok |-> TRUE, val |-> lengthPrefixedList(r.val, lengthPrefixBytes), pos |-> r.pos]

(***************************************************************************)
(* clarity/types/principalCV.ts.                                           *)
(***************************************************************************)
\* standardPrincipalCV(addressString)
standardPrincipalCV(addressString) ==
  [ok |-> TRUE,
   val |-> [type |-> ClarityType_PrincipalStandard, address |-> address(addressString)]]

\* contractPrincipalCVFromAddress(address, contractName)
contractPrincipalCVFromAddress(addr, contractName) ==
  IF ByteLength(contractName.content) >= 128 THEN Threw
  ELSE [ok |-> TRUE,
        val |-> [type |-> ClarityType_PrincipalContract,
                 address |-> addr,
                 contractName |-> contractName]]

\* contractPrincipalCV(addressString, contractName)
contractPrincipalCV(addressString, contractName) ==
  LET addr == address(addressString)
      lengthPrefixedContractName == lengthPrefixedString(contractName, undefined, undefined) IN
  IF ~lengthPrefixedContractName.ok THEN Threw
  ELSE contractPrincipalCVFromAddress(addr, lengthPrefixedContractName.val)

\* contractPrincipalCVFromStandard(sp, contractName)
contractPrincipalCVFromStandard(sp, contractName) ==
  LET lengthPrefixedContractName == lengthPrefixedString(contractName, undefined, undefined) IN
  IF ~lengthPrefixedContractName.ok THEN Threw
  ELSE [ok |-> TRUE,
        val |-> [type |-> ClarityType_PrincipalContract,
                 address |-> sp.address,
                 contractName |-> lengthPrefixedContractName.val]]

(***************************************************************************)
(* payload.ts.  A BigNum is bn.js's sequence of 26-bit words, least        *)
(* significant first; a Clarity value is opaque but for its encoding.      *)
(***************************************************************************)
\* the width of a bn.js word, 2^26
BN_WORD == 67108864

\* an optional string argument that was not passed
undefinedString == <<undefined>>

\* bn.js iushrn(8): the number shifted right by one byte
BN_ushrn8(words) ==
  [i \in 1..Len(words) |->
     (words[i] \div 256)
       + (IF i < Len(words) THEN (words[i + 1] % 256) * (BN_WORD \div 256) ELSE 0)]

\* bn.js isZero()
BN_isZero(words) == \A i \in 1..Len(words) : words[i] = 0

RECURSIVE BN_bytesLE(_, _)
\* the loop of bn.js toArrayLike: the n low bytes, least significant first
BN_bytesLE(words, n) ==
  IF n = 0 THEN <<>> ELSE <<words[1] % 256>> \o BN_bytesLE(BN_ushrn8(words), n - 1)

RECURSIVE BN_ushrnBytes(_, _)
\* the number shifted right by n bytes
BN_ushrnBytes(words, n) ==
  IF n = 0 THEN words ELSE BN_ushrnBytes(BN_ushrn8(words), n - 1)

\* reverse of a sequence
Reverse(s) == [i \in 1..Len(s) |-> s[Len(s) + 1 - i]]

\* toArrayLike with the bytes in little-endian order
BN_toArrayLike_le(words, length) ==
  IF ~BN_isZero(BN_ushrnBytes(words, length)) THEN Threw
  ELSE [ok |-> TRUE, val |-> BN_bytesLE(words, length)]

\* bn.js amount.toArrayLike(Buffer, 'be', length): throws when the number
\* needs more than length bytes
BN_toArrayLike(words, length) ==
  IF ~BN_isZero(BN_ushrnBytes(words, length)) THEN Threw
  ELSE [ok |-> TRUE, val |-> Reverse(BN_bytesLE(words, length))]

\* clarity serializeCV(value): the type byte, then the value's own bytes
serializeCV(cv) == <<cv.type>> \o cv.body

\* tokenTransferPayload(recipientAddress, amount, memo?)
tokenTransferPayload(recipientAddress, amount, memo) ==
  LET m == IF memo # undefinedString /\ memo # <<>> THEN memoString(memo)
           ELSE memoString(<<>>) IN
  IF ~m.ok THEN Threw ELSE
  [ok |-> TRUE,
   val |-> [payloadType |-> PayloadType_TokenTransfer,
            recipientAddress |-> address(recipientAddress),
            amount |-> amount,
            memo |-> m.val]]

\* contractCallPayload(contractAddress, contractName, functionName, functionArgs)
contractCallPayload(contractAddress, contractName, functionName, functionArgs) ==
  LET cn == lengthPrefixedString(contractName, undefined, undefined)
      fn == lengthPrefixedString(functionName, undefined, undefined) IN
  IF ~cn.ok \/ ~fn.ok THEN Threw ELSE
  [ok |-> TRUE,
   val |-> [payloadType |-> PayloadType_ContractCall,
            contractAddress |-> address(contractAddress),
            contractName |-> cn.val,
            functionName |-> fn.val,
            functionArgs |-> functionArgs]]

\* smartContractPayload(contractName, codeBody): the code body is built
\* from contractName
smartContractPayload(contractName, codeBody) ==
  LET cn == lengthPrefixedString(contractName, undefined, undefined)
      cb == codeBodyString(contractName) IN
  IF ~cn.ok \/ ~cb.ok THEN Threw ELSE
  [ok |-> TRUE,
   val |-> [payloadType |-> PayloadType_SmartContract,
            contractName |-> cn.val,
            codeBody |-> cb.val]]

\* poisonPayload()
poisonPayload == [ok |-> TRUE, val |-> [payloadType |-> PayloadType_PoisonMicroblock]]

\* coinbasePayload that rejects only a buffer that is too short
coinbasePayload_shortOnly(coinbaseBuffer) ==
  IF Len(coinbaseBuffer) < COINBASE_BUFFER_LENGTH_BYTES THEN Threw
  ELSE [ok |-> TRUE,
        val |-> [payloadType |-> PayloadType_Coinbase, coinbaseBuffer |-> coinbaseBuffer]]

\* coinbasePayload(coinbaseBuffer)
coinbasePayload(coinbaseBuffer) ==
  IF Len(coinbaseBuffer) # COINBASE_BUFFER_LENGTH_BYTES THEN Threw
  ELSE [ok |-> TRUE,
        val |-> [payloadType |-> PayloadType_Coinbase, coinbaseBuffer |-> coinbaseBuffer]]

\* Buffer.writeUInt32BE(n) into a fresh Buffer.alloc(4)
UInt32BE(n) ==
  <<(n \div 16777216) % 256, (n \div 65536) % 256, (n \div 256) % 256, n % 256>>

\* the forEach of the ContractCall case with the arguments taken last to first
ContractCallArgs_reversed(functionArgs) ==
  [i \in 1..Len(functionArgs) |-> serializeCV(functionArgs[Len(functionArgs) + 1 - i])]

\* payload.functionArgs.forEach(arg => bufferArray.push(serializeCV(arg)))
ContractCallArgs(functionArgs) ==
  [i \in 1..Len(functionArgs) |-> serializeCV(functionArgs[i])]

\* the chunks serializePayload pushes after the payload type byte
PayloadFields(payload) ==
  CASE payload.payloadType = PayloadType_TokenTransfer ->
         <<serializeStacksMessage(payload.recipientAddress),
           BN_toArrayLike(payload.amount, 8).val,
           serializeStacksMessage(payload.memo)>>
    [] payload.payloadType = PayloadType_ContractCall ->
         <<serializeStacksMessage(payload.contractAddress),
           serializeStacksMessage(payload.contractName),
           serializeStacksMessage(payload.functionName),
           UInt32BE(Len(payload.functionArgs))>>
         \o ContractCallArgs(payload.functionArgs)
    [] payload.payloadType = PayloadType_SmartContract ->
         <<serializeStacksMessage(payload.contractName),
           serializeStacksMessage(payload.codeBody)>>
    [] payload.payloadType = PayloadType_PoisonMicroblock -> <<>>
    [] payload.payloadType = PayloadType_Coinbase -> <<payload.coinbaseBuffer>>
    [] OTHER -> <<>>

\* serializePayload(payload)
serializePayload(payload) ==
  IF /\ payload.payloadType = PayloadType_TokenTransfer
     /\ ~BN_toArrayLike(payload.amount, 8).ok
  THEN Threw
  ELSE [ok |-> TRUE, val |-> Flatten(<<<<payload.payloadType>>>> \o PayloadFields(payload))]

(***************************************************************************)
(* Inputs.                                                                 *)
(***************************************************************************)
\* the string of n characters that starts with the code point first:
\* 97 is 'a' (one byte), 233 is 'e' with acute accent (two bytes)
Str(n, first) == [i \in 1..n |-> IF i = 1 THEN first ELSE 97 + (i % 3)]

Strings == {Str(n, c) : n \in 0..MaxStrLen, c \in {97, 233}}
ShortStrings == {Str(n, c) : n \in 0..MaxShortLen, c \in {97, 233}}

\* the lengthPrefixBytes and maxLengthBytes arguments a caller passes
PrefixArgs == {undefined, 1, 2, 4}
MaxLengthArgs == {undefined, 3, 100000}

\* memo arguments around the memo ceiling
MemoArgs ==
  {undefinedString}
    \cup {Str(n, c) : n \in {0, 1, 2, MEMO_MAX_LENGTH_BYTES - 1, MEMO_MAX_LENGTH_BYTES,
                            MEMO_MAX_LENGTH_BYTES + 1},
                     c \in {97, 233}}

\* amounts as bn.js words: 0, 255, 256, 1000, 2^26 - 1, 2^26, 2^32, 2^52 + 5,
\* 0x0123456789ABCDEF, 2^64 - 1 and 2^64
Amounts ==
  {<<0>>, <<255>>, <<256>>, <<1000>>, <<67108863>>, <<0, 1>>, <<0, 64>>, <<5, 0, 1>>,
   <<11259375, 9018786, 18>>, <<67108863, 67108863, 4095>>, <<0, 0, 4096>>}

\* the buffer of n bytes i * k mod 256
Buf(n, k) == [i \in 1..n |-> (i * k) % 256]
Buffers == {Buf(n, k) : n \in 0..MaxBufLen, k \in {0, 7, 255}}

\* Clarity values: true, false, none and (buff 0x6162)
ClarityValues ==
  {[type |-> 3, body |-> <<>>], [type |-> 4, body |-> <<>>], [type |-> 9, body |-> <<>>],
   [type |-> 2, body |-> <<0, 0, 0, 2, 97, 98>>]}

\* the sequences over S of length at most n
SeqsUpTo(S, n) == UNION {[1..k -> S] : k \in 0..n}

\* the values of one message kind a list is built from, by the type tag
\* the caller hands to deserializeLengthPrefixedList; an AssetInfo that is a
\* StacksMessage comes from deserializeAssetInfo (assetInfo sets no type)
ListElements(type) ==
  CASE type = StacksMessageType_Address -> {address(a) : a \in C32Addresses}
    [] type = StacksMessageType_LengthPrefixedString ->
         {lengthPrefixedString(s, undefined, undefined).val : s \in ShortStrings}
    [] type = StacksMessageType_MemoString -> {memoString(s).val : s \in ShortStrings}
    [] type = StacksMessageType_AssetInfo ->
         {deserializeAssetInfo(
            serializeAssetInfo(assetInfo(a, Str(2, 97), Str(1, 233)).val), 0).val :
              a \in {"SP_A", "ST_B"}}
    [] type = PrincipalType_Standard -> {standardPrincipal(a).val : a \in C32Addresses}
    [] type = PrincipalType_Contract ->
         {contractPrincipal("SP_A", s).val : s \in {Str(1, 97), Str(2, 233)}}

ListTypes ==
  {StacksMessageType_Address, StacksMessageType_LengthPrefixedString,
   StacksMessageType_MemoString, StacksMessageType_AssetInfo,
   PrincipalType_Standard, PrincipalType_Contract}

(***************************************************************************)
(* The state: one value built by a constructor, serialized, then           *)
(* deserialized from a reader over the serialized bytes.                   *)
(***************************************************************************)
VARIABLES
  pc,       \* "start", "constructed", "serialized" or "deserialized"
  op,       \* the constructor that was called
  args,     \* its arguments
  built,    \* its result: [ok, val], or Threw
  ser,      \* the serializer that was called
  encoded,  \* its result: [ok, val], val the buffer
  decoded   \* the deserializer's result: [ok, val, pos], pos the reader's cursor

vars == <<pc, op, args, built, ser, encoded, decoded>>

\* a result that does not exist yet
Pending == [ok |-> FALSE, pending |-> TRUE]

Init ==
  /\ pc = "start"
  /\ op = "none"
  /\ args = <<>>
  /\ built = Pending
  /\ ser = "none"
  /\ encoded = Pending
  /\ decoded = Pending

\* a constructor called with arguments a returned (or threw) r
Construct(name, a, r) ==
  /\ pc = "start"
  /\ pc' = "constructed"
  /\ op' = name
  /\ args' = a
  /\ built' = r
  /\ UNCHANGED <<ser, encoded, decoded>>

LengthPrefixedString ==
  /\ pc = "start"
  /\ \E content \in Strings, lengthPrefixBytes \in PrefixArgs, maxLengthBytes \in MaxLengthArgs :
       Construct("lengthPrefixedString",
                 [content |-> content, lengthPrefixBytes |-> lengthPrefixBytes,
                  maxLengthBytes |-> maxLengthBytes],
                 lengthPrefixedString(content, lengthPrefixBytes, maxLengthBytes))

CodeBodyString ==
  /\ pc = "start"
  /\ \E content \in Strings :
       Construct("codeBodyString", [content |-> content], codeBodyString(content))

MemoString ==
  /\ pc = "start"
  /\ \E content \in Strings :
       Construct("memoString", [content |-> content], memoString(content))

StandardPrincipal ==
  /\ pc = "start"
  /\ \E a \in C32Addresses :
       Construct("standardPrincipal", [addressString |-> a], standardPrincipal(a))

ContractPrincipal ==
  /\ pc = "start"
  /\ \E a \in C32Addresses, contractName \in Strings :
       Construct("contractPrincipal", [addressString |-> a, contractName |-> contractName],
                 contractPrincipal(a, contractName))

AssetInfo ==
  /\ pc = "start"
  /\ \E a \in C32Addresses, contractName \in ShortStrings, assetName \in ShortStrings :
       Construct("assetInfo",
                 [addressString |-> a, contractName |-> contractName, assetName |-> assetName],
                 assetInfo(a, contractName, assetName))

LengthPrefixedList ==
  /\ pc = "start"
  /\ \E type \in ListTypes, lengthPrefixBytes \in PrefixArgs :
       \E values \in SeqsUpTo(ListElements(type), MaxListLen) :
         Construct("lengthPrefixedList",
                   [type |-> type, values |-> values, lengthPrefixBytes |-> lengthPrefixBytes],
                   [ok |-> TRUE, val |-> lengthPrefixedList(values, lengthPrefixBytes)])

StandardPrincipalCV ==
  /\ pc = "start"
  /\ \E a \in C32Addresses :
       Construct("standardPrincipalCV", [addressString |-> a], standardPrincipalCV(a))

ContractPrincipalCV ==
  /\ pc = "start"
  /\ \E a \in C32Addresses, contractName \in Strings :
       Construct("contractPrincipalCV", [addressString |-> a, contractName |-> contractName],
                 contractPrincipalCV(a, contractName))

\* the contract name is a LengthPrefixedString some constructor call returned
ContractPrincipalCVFromAddress ==
  /\ pc = "start"
  /\ \E a \in C32Addresses, content \in Strings, maxLengthBytes \in {undefined, 100000} :
       LET name == lengthPrefixedString(content, undefined, maxLengthBytes) IN
       /\ name.ok
       /\ Construct("contractPrincipalCVFromAddress",
                    [address |-> address(a), contractName |-> name.val],
                    contractPrincipalCVFromAddress(address(a), name.val))

ContractPrincipalCVFromStandard ==
  /\ pc = "start"
  /\ \E a \in C32Addresses, contractName \in Strings :
       Construct("contractPrincipalCVFromStandard",
                 [sp |-> standardPrincipalCV(a).val, contractName |-> contractName],
                 contractPrincipalCVFromStandard(standardPrincipalCV(a).val, contractName))

TokenTransferPayload ==
  /\ pc = "start"
  /\ \E a \in C32Addresses, amount \in Amounts, memo \in MemoArgs :
       Construct("tokenTransferPayload",
                 [recipientAddress |-> a, amount |-> amount, memo |-> memo],
                 tokenTransferPayload(a, amount, memo))

ContractCallPayload ==
  /\ pc = "start"
  /\ \E a \in {"SP_A", "SN_D"}, contractName \in ShortStrings, functionName \in {Str(1, 97), Str(3, 233)} :
       \E functionArgs \in SeqsUpTo(ClarityValues, MaxListLen) :
         Construct("contractCallPayload",
                   [contractAddress |-> a, contractName |-> contractName,
                    functionName |-> functionName, functionArgs |-> functionArgs],
                   contractCallPayload(a, contractName, functionName, functionArgs))

SmartContractPayload ==
  /\ pc = "start"
  /\ \E contractName \in Strings, codeBody \in {<<>>, Str(2, 97), Str(5, 233)} :
       Construct("smartContractPayload", [contractName |-> contractName, codeBody |-> codeBody],
                 smartContractPayload(contractName, codeBody))

PoisonPayload ==
  /\ pc = "start"
  /\ Construct("poisonPayload", <<>>, poisonPayload)

CoinbasePayload ==
  /\ pc = "start"
  /\ \E coinbaseBuffer \in Buffers :
       Construct("coinbasePayload", [coinbaseBuffer |-> coinbaseBuffer],
                 coinbasePayload(coinbaseBuffer))

\* the principal that deserializePrincipal returned is itself a Principal
\* a caller holds: it is the value of the next serialization
DecodedPrincipal ==
  /\ pc = "deserialized"
  /\ op \in {"standardPrincipal", "contractPrincipal"}
  /\ decoded.ok
  /\ pc' = "constructed"
  /\ op' = "deserializePrincipal"
  /\ args' = [bytes |-> encoded.val]
  /\ built' = [ok |-> TRUE, val |-> decoded.val]
  /\ ser' = "none"
  /\ encoded' = Pending
  /\ decoded' = Pending

\* the calls whose results are StacksMessages, and the constructors of payloads
MessageOps ==
  {"lengthPrefixedString", "codeBodyString", "memoString", "standardPrincipal",
   "contractPrincipal", "assetInfo", "deserializePrincipal"}
PayloadOps ==
  {"tokenTransferPayload", "contractCallPayload", "smartContractPayload", "poisonPayload",
   "coinbasePayload"}

\* a serializer called on the constructed value returned (or threw) r
Serialize(name, r) ==
  /\ pc = "constructed"
  /\ built.ok
  /\ pc' = "serialized"
  /\ ser' = name
  /\ encoded' = r
  /\ UNCHANGED <<op, args, built, decoded>>

SerializeStacksMessage ==
  /\ op \in MessageOps
  /\ Serialize("serializeStacksMessage",
               [ok |-> TRUE, val |-> serializeStacksMessage(built.val)])

SerializeAssetInfo ==
  /\ op = "assetInfo"
  /\ Serialize("serializeAssetInfo", [ok |-> TRUE, val |-> serializeAssetInfo(built.val)])

\* Buffer.concat throws on a chunk that is undefined
SerializeLengthPrefixedList ==
  /\ op = "lengthPrefixedList"
  /\ Serialize("serializeLengthPrefixedList",
               IF \E i \in 1..Len(built.val.values) :
                    serializeStacksMessage(built.val.values[i]) = UndefinedBuffer
               THEN Threw
               ELSE [ok |-> TRUE, val |-> serializeLengthPrefixedList(built.val)])

SerializePayload ==
  /\ op \in PayloadOps
  /\ Serialize("serializePayload", serializePayload(built.val))

\* a deserializer called on a reader over the serialized bytes returned (or
\* threw) r; there is no buffer to read when the serializer returned undefined
Deserialize(r) ==
  /\ pc = "serialized"
  /\ encoded.ok
  /\ pc' = "deserialized"
  /\ decoded' = IF encoded.val = UndefinedBuffer THEN Threw ELSE r
  /\ UNCHANGED <<op, args, built, ser, encoded>>

DeserializeLPString ==
  /\ op \in {"lengthPrefixedString", "codeBodyString"}
  /\ Deserialize(deserializeLPString(encoded.val, 0))

DeserializeMemoString ==
  /\ op = "memoString"
  /\ Deserialize(deserializeMemoString(encoded.val, 0))

DeserializePrincipal ==
  /\ op \in {"standardPrincipal", "contractPrincipal", "deserializePrincipal"}
  /\ Deserialize(deserializePrincipal(encoded.val, 0))

DeserializeAssetInfo ==
  /\ op = "assetInfo"
  /\ Deserialize(deserializeAssetInfo(encoded.val, 0))

DeserializeLengthPrefixedList ==
  /\ op = "lengthPrefixedList"
  /\ Deserialize(deserializeLengthPrefixedList(encoded.val, 0, built.val.lengthPrefixBytes,
                                               args.type))

Next ==
  \/ LengthPrefixedString
  \/ CodeBodyString
  \/ MemoString
  \/ StandardPrincipal
  \/ ContractPrincipal
  \/ AssetInfo
  \/ LengthPrefixedList
  \/ StandardPrincipalCV
  \/ ContractPrincipalCV
  \/ ContractPrincipalCVFromAddress
  \/ ContractPrincipalCVFromStandard
  \/ TokenTransferPayload
  \/ ContractCallPayload
  \/ SmartContractPayload
  \/ PoisonPayload
  \/ CoinbasePayload
  \/ DecodedPrincipal
  \/ SerializeStacksMessage
  \/ SerializeAssetInfo
  \/ SerializeLengthPrefixedList
  \/ SerializePayload
  \/ DeserializeLPString
  \/ DeserializeMemoString
  \/ DeserializePrincipal
  \/ DeserializeAssetInfo
  \/ DeserializeLengthPrefixedList

Spec == Init /\ [][Next]_vars

TypeOK == pc \in {"start", "constructed", "serialized", "deserialized"}

(***************************************************************************)
(* Properties.                                                             *)
(***************************************************************************)
\* the n-byte big-endian encoding of a number below 2^31 (its bytes above
\* the fourth lowest are zero)
BigEndian(x, n) ==
  [j \in 1..n |-> IF n - j >= 4 THEN 0 ELSE (x \div (256 ^ (n - j))) % 256]

\* the wire form of an address: the version byte, then the 20 hash bytes
AddressBytes(addr) == <<addr.version>> \o HexToBuffer(addr.data)

\* the wire form of a string behind an n-byte big-endian length
PrefixedBytes(content, n) == BigEndian(ByteLength(content), n) \o Utf8Encode(content)

\* n zero bytes
Zeros(n) == [i \in 1..n |-> 0]

\* C1: a LengthPrefixedString built with prefix width 1, 2 or 4 (code bodies
\* included) deserializes from its serialization to a value with the same
\* content and the same lengthPrefixBytes.
C1_LPStringRoundTrip ==
  (/\ pc = "deserialized"
   /\ op \in {"lengthPrefixedString", "codeBodyString"}
   /\ built.val.lengthPrefixBytes \in {1, 2, 4})
  => /\ decoded.ok
     /\ decoded.val.content = built.val.content
     /\ decoded.val.lengthPrefixBytes = built.val.lengthPrefixBytes

\* C2: a list of N values of one kind K with prefix width w serializes to
\* the w-byte big-endian count followed by the element encodings in order,
\* and deserializes with (w, K) to exactly those N values, each of kind K,
\* in order, with the reader's cursor at the end of the bytes.
C2_ListRoundTrip ==
  (op = "lengthPrefixedList" /\ pc \in {"serialized", "deserialized"})
  => LET list == built.val.values
         w == built.val.lengthPrefixBytes IN
     /\ encoded.ok
     /\ encoded.val =
          BigEndian(Len(list), w)
            \o Flatten([i \in 1..Len(list) |-> serializeStacksMessage(list[i])])
     /\ pc = "deserialized"
        => /\ decoded.ok
           /\ Len(decoded.val.values) = Len(list)
           /\ \A i \in 1..Len(list) :
                /\ TypeOf(decoded.val.values[i]) = args.type
                /\ decoded.val.values[i] = list[i]
           /\ decoded.pos = Len(encoded.val)

\* C3: a memo built by memoString deserializes from its serialization to a
\* memo with the same content.
C3_MemoRoundTrip ==
  (pc = "deserialized" /\ op = "memoString")
  => /\ decoded.ok
     /\ decoded.val.content = built.val.content

\* C4: serializeStacksMessage of a value built by assetInfo is the address,
\* the contract name and the asset name, each name behind a 1-byte length,
\* and those bytes decode as an AssetInfo with the same address and names.
C4_AssetInfoDispatch ==
  (op = "assetInfo" /\ ser = "serializeStacksMessage"
     /\ pc \in {"serialized", "deserialized"})
  => /\ encoded.ok
     /\ encoded.val =
          AddressBytes(built.val.address)
            \o PrefixedBytes(built.val.contractName.content, 1)
            \o PrefixedBytes(built.val.assetName.content, 1)
     /\ pc = "deserialized"
        => /\ decoded.ok
           /\ decoded.val.address.version = built.val.address.version
           /\ decoded.val.address.data = built.val.address.data
           /\ decoded.val.contractName.content = built.val.contractName.content
           /\ decoded.val.assetName.content = built.val.assetName.content

\* C5: for a maximum M > 0, lengthPrefixedString throws when the content
\* has M bytes or more, and returns a value when it has M - 1 bytes or less.
C5_LPStringBoundary ==
  (op = "lengthPrefixedString" /\ pc # "start" /\ args.maxLengthBytes > 0)
  => /\ ByteLength(args.content) >= args.maxLengthBytes => ~built.ok
     /\ ByteLength(args.content) <= args.maxLengthBytes - 1 => built.ok

\* C6: memoString returns a memo exactly when the content has at most
\* MEMO_MAX_LENGTH_BYTES bytes, and the serialization of an accepted memo
\* is MEMO_MAX_LENGTH_BYTES bytes: the content bytes, then zero bytes only.
C6_MemoBoundary ==
  (op = "memoString" /\ pc # "start")
  => LET n == ByteLength(args.content) IN
     /\ built.ok <=> n <= MEMO_MAX_LENGTH_BYTES
     /\ pc \in {"serialized", "deserialized"}
        => /\ encoded.ok
           /\ Len(encoded.val) = MEMO_MAX_LENGTH_BYTES
           /\ encoded.val = Utf8Encode(args.content) \o Zeros(MEMO_MAX_LENGTH_BYTES - n)

\* a memo of exactly MEMO_MAX_LENGTH_BYTES bytes was accepted and serialized
C6_Witness ==
  /\ op = "memoString"
  /\ pc = "serialized"
  /\ ByteLength(args.content) = MEMO_MAX_LENGTH_BYTES
  /\ encoded.val = Utf8Encode(args.content)

\* the constructors that take a contract name, and the name each was given
ContractNameOps ==
  {"contractPrincipal", "contractPrincipalCV", "contractPrincipalCVFromAddress",
   "contractPrincipalCVFromStandard", "smartContractPayload"}
ContractNameArg ==
  IF op = "contractPrincipalCVFromAddress" THEN args.contractName.content
  ELSE args.contractName

\* C7: every constructor of a contract principal, and smartContractPayload,
\* throws when the contract name has 128 bytes or more, so no constructed
\* value holds such a name.
C7_ContractNameBound ==
  (op \in ContractNameOps /\ pc # "start")
  => /\ ByteLength(ContractNameArg) >= 128 => ~built.ok
     /\ built.ok => ByteLength(built.val.contractName.content) < 128

\* C8: coinbasePayload returns a payload exactly when the buffer has
\* COINBASE_BUFFER_LENGTH_BYTES bytes, and serializePayload of it is the
\* Coinbase tag byte followed by the buffer's bytes.
C8_CoinbaseFixedWidth ==
  (op = "coinbasePayload" /\ pc # "start")
  => /\ built.ok <=> Len(args.coinbaseBuffer) = COINBASE_BUFFER_LENGTH_BYTES
     /\ pc = "serialized"
        => /\ encoded.ok
           /\ Len(encoded.val) = 1 + COINBASE_BUFFER_LENGTH_BYTES
           /\ encoded.val = <<PayloadType_Coinbase>> \o args.coinbaseBuffer

\* a coinbase payload with a buffer of non-zero bytes was serialized
C8_Witness ==
  /\ op = "coinbasePayload"
  /\ pc = "serialized"
  /\ encoded.ok
  /\ args.coinbaseBuffer = Buf(COINBASE_BUFFER_LENGTH_BYTES, 7)

\* C9: smartContractPayload(contractName, codeBody) holds the contract name
\* and codeBodyString(codeBody), and serializes to the tag byte, the name
\* behind a 1-byte length and the code body behind a 4-byte length.
C9_SmartContractFields ==
  (op = "smartContractPayload" /\ pc # "start" /\ built.ok)
  => /\ built.val.contractName.content = args.contractName
     /\ built.val.codeBody.content = args.codeBody
     /\ built.val.codeBody.lengthPrefixBytes = 4
     /\ built.val.codeBody.maxLengthBytes = 100000
     /\ pc = "serialized"
        => /\ encoded.ok
           /\ encoded.val =
                <<PayloadType_SmartContract>>
                  \o PrefixedBytes(args.contractName, 1)
                  \o PrefixedBytes(args.codeBody, 4)

\* bit j of a bn.js number
BitOfAmount(words, j) ==
  IF j \div 26 >= Len(words) THEN 0 ELSE (words[(j \div 26) + 1] \div (2 ^ (j % 26))) % 2

\* bit j of the unsigned integer that 8 big-endian bytes encode
BitOfBytes(b, j) == (b[8 - (j \div 8)] \div (2 ^ (j % 8))) % 2

\* the number is at most 2^64 - 1
IsUInt64(words) == \A j \in 64..(26 * Len(words) - 1) : BitOfAmount(words, j) = 0

\* the memo a token transfer carries: the empty memo when none was passed
MemoArg == IF args.memo = undefinedString THEN <<>> ELSE args.memo

\* C10: for an amount in 0 .. 2^64 - 1 and a valid memo, the serialization
\* of a token transfer is 1 + 21 + 8 + MEMO_MAX_LENGTH_BYTES bytes: the tag,
\* the address version and hash, the amount as 8 big-endian bytes (1000 is
\* 00 00 00 00 00 00 03 E8) and the memo padded with zero bytes.
C10_TokenTransferLayout ==
  (/\ op = "tokenTransferPayload"
   /\ pc # "start"
   /\ ByteLength(MemoArg) <= MEMO_MAX_LENGTH_BYTES)
  => /\ built.ok
     /\ (pc = "serialized" /\ IsUInt64(args.amount))
        => LET b == encoded.val
               addr == address(args.recipientAddress)
               amountBytes == SubSeq(b, 23, 30) IN
           /\ encoded.ok
           /\ Len(b) = 1 + 21 + 8 + MEMO_MAX_LENGTH_BYTES
           /\ b[1] = PayloadType_TokenTransfer
           /\ SubSeq(b, 2, 22) = AddressBytes(addr)
           /\ \A j \in 0..63 : BitOfBytes(amountBytes, j) = BitOfAmount(args.amount, j)
           /\ args.amount = <<1000>> => amountBytes = <<0, 0, 0, 0, 0, 0, 3, 232>>
           /\ SubSeq(b, 31, Len(b))
                = Utf8Encode(MemoArg) \o Zeros(MEMO_MAX_LENGTH_BYTES - ByteLength(MemoArg))

\* a transfer of 2^64 - 1 with a non-empty memo was serialized
C10_Witness ==
  /\ op = "tokenTransferPayload"
  /\ pc = "serialized"
  /\ encoded.ok
  /\ args.amount = <<67108863, 67108863, 4095>>
  /\ args.memo = Str(2, 233)

\* the calls that return a Principal
PrincipalOps == {"standardPrincipal", "contractPrincipal", "deserializePrincipal"}

\* the wire form of a principal: the discriminant, the address and, for the
\* contract variant only, the contract name behind its length prefix
PrincipalBytes(p) ==
  <<p.type>> \o AddressBytes(p.address)
    \o (IF p.type = PrincipalType_Contract
        THEN PrefixedBytes(p.contractName.content, p.contractName.lengthPrefixBytes)
        ELSE <<>>)

\* C11: the serialization of every Principal is the discriminant byte, the
\* 21-byte address and the length-prefixed contract name exactly for the
\* contract variant (22 bytes for a standard principal); deserializePrincipal
\* returns from it the same variant, address version and hash and, for the
\* contract variant, contract-name content, with the cursor at the end.
C11_PrincipalFraming ==
  (op \in PrincipalOps /\ pc \in {"serialized", "deserialized"})
  => LET p == built.val IN
     /\ encoded.ok
     /\ encoded.val = PrincipalBytes(p)
     /\ p.type = PrincipalType_Standard => Len(encoded.val) = 22
     /\ pc = "deserialized"
        => /\ decoded.ok
           /\ decoded.val.type = p.type
           /\ decoded.val.address.version = p.address.version
           /\ decoded.val.address.data = p.address.data
           /\ "contractName" \in DOMAIN decoded.val <=> p.type = PrincipalType_Contract
           /\ p.type = PrincipalType_Contract
              => decoded.val.contractName.content = p.contractName.content
           /\ decoded.pos = Len(encoded.val)

RECURSIVE ArgOffset(_, _)
\* the number of bytes the encodings of the first i arguments take
ArgOffset(functionArgs, i) ==
  IF i = 0 THEN 0
  ELSE ArgOffset(functionArgs, i - 1) + Len(serializeCV(functionArgs[i]))

\* C12: the serialization of a ContractCall payload with n arguments is the
\* tag byte, the 21-byte contract address, the contract name, the function
\* name and n as 4 big-endian bytes, followed at once by the encoding of
\* each argument in the order of functionArgs, and by nothing else.
C12_ContractCallFraming ==
  (op = "contractCallPayload" /\ pc = "serialized")
  => LET b == encoded.val
         functionArgs == args.functionArgs
         n == Len(functionArgs)
         head == <<PayloadType_ContractCall>>
                   \o AddressBytes(address(args.contractAddress))
                   \o PrefixedBytes(args.contractName, 1)
                   \o PrefixedBytes(args.functionName, 1)
                   \o BigEndian(n, 4)
         h == Len(head) IN
     /\ encoded.ok
     /\ Len(b) = h + ArgOffset(functionArgs, n)
     /\ SubSeq(b, 1, h) = head
     /\ \A i \in 1..n :
          SubSeq(b, h + ArgOffset(functionArgs, i - 1) + 1, h + ArgOffset(functionArgs, i))
            = serializeCV(functionArgs[i])

\* a call with two arguments of different encodings was serialized
C12_Witness ==
  /\ op = "contractCallPayload"
  /\ pc = "serialized"
  /\ encoded.ok
  /\ args.functionArgs = <<[type |-> 2, body |-> <<0, 0, 0, 2, 97, 98>>],
                           [type |-> 3, body |-> <<>>]>>

====
